---------------------------- MODULE Spec2Model ----------------------------
(***************************************************************************)
(* The inventory costing engine of the bakery back office                  *)
(* (src/bakery/costing.py) over the tables of src/bakery/models.py, run by *)
(* concurrent database connections.                                        *)
(*                                                                         *)
(* Quantities (Django FloatField) are counted in steps of 1/QtyScale of a  *)
(* unit; money (DecimalField, 2 places) is counted in cents.  A product of *)
(* a quantity and a unit cost is therefore a number of 1/QtyScale cents.   *)
(* The store is a relational database at READ COMMITTED with row locks     *)
(* (SELECT ... FOR UPDATE): a transaction sees committed rows and its own  *)
(* writes, and its writes and locks end together at COMMIT or ROLLBACK.    *)
(*                                                                         *)
(* Around the engine the module has the operations of the application that *)
(* write the same tables: the creation and the deletion of sales           *)
(* (src/bakery/serializers.py, src/bakery/views.py), the admin site's      *)
(* forms for SaleItem and StockLedger (src/bakery/admin.py), and the stock *)
(* reports (src/bakery/alerts.py, src/bakery/inventory_views.py).  The     *)
(* import jobs of src/bakery/import_views.py have tables of their own.     *)
(* Each specification takes the operations its properties are about.       *)
(***************************************************************************)
EXTENDS Integers, Sequences, FiniteSets, TLC

\* Resolution of the quantities: steps per whole unit.
QtyScale == 2
\* Invocations of compute_cogs_for_sale that may be started in one run.
MaxCalls == 2
\* The rows given to _allocate_fifo when it is called on its own, and the
\* largest qty_remaining of such a row, in steps of 1/FineScale.
MaxRows == 3
MaxFine == 3
\* DELETE /sales/<id>/ requests that may be served in one run.
MaxDeletes == 1
\* The admin site adds StockLedger rows while the last id is below this.
MaxLedger == 3

\* The epsilon of _allocate_fifo, 1e-6, as EpsNum / EpsDen.
EpsNum == 1
EpsDen == 1000000

Procs == {1, 2}
NoProc == 0
BatchIds == {1, 2, 3, 4}
SaleIds == {1, 2, 3}
\* A sale made at the second outlet.
BranchSale == 4
NoExpiry == 0

FIFO == "FIFO"
FEFO == "FEFO"
Methods == {FIFO, FEFO}

Whole(n) == n * QtyScale

Max(a, b) == IF a >= b THEN a ELSE b
\* A variant of min that returns the larger argument.
TheLarger(a, b) == IF a <= b THEN b ELSE a
Min(a, b) == IF a <= b THEN a ELSE b

\* Sale.outlet of each sale.
SaleOutlet(s) == IF s = BranchSale THEN 2 ELSE 1

\* The SaleItem rows a sale can have, in sale.items order: product and qty.
\* The first line of sales 1 and 2 and both lines of sale 3 are written by
\* SaleSerializer.create; the second line of sales 1 and 2 can only be added
\* later, through the admin site's SaleItem form (which accepts a qty of 0).
\* The sale of the second outlet has two lines of the same product, and a
\* third one that the admin site can add.
SaleItems(s) ==
  CASE s = 1 -> << [product |-> 1, qty |-> Whole(7)], [product |-> 2, qty |-> Whole(1)] >>
    [] s = 2 -> << [product |-> 1, qty |-> Whole(4)], [product |-> 2, qty |-> 0] >>
    [] s = 3 -> << [product |-> 2, qty |-> 1], [product |-> 1, qty |-> Whole(5) + 1] >>
    [] s = BranchSale -> << [product |-> 1, qty |-> Whole(2)], [product |-> 1, qty |-> Whole(2)],
                            [product |-> 1, qty |-> Whole(2)] >>

\* A SaleItem is named by its sale and its position in the sale.
ItemIds ==
  UNION { { <<s, k>> : k \in 1..Len(SaleItems(s)) } : s \in SaleIds \cup {BranchSale} }

\* The lines admin.site.register(SaleItem) lets a user add to a sale, and the
\* lines of the write_items of the POST /sales/ request of each sale.
AdminLines == { <<1, 2>>, <<2, 2>>, <<BranchSale, 3>> }
write_items(s) == { i \in ItemIds \ AdminLines : i[1] = s }

\* The PurchaseBatch rows at receipt: qty_remaining = qty_in.
PurchaseBatch(product, outlet, received_at, expiry, qty_in, unit_cost) ==
  [product |-> product, outlet |-> outlet, received_at |-> received_at,
   expiry |-> expiry, qty_in |-> qty_in, unit_cost |-> unit_cost,
   qty_remaining |-> qty_in]

\* A variant of quantize that goes to the cent above the truncated value.
quantize_above(n, d) == (n \div d) + 1

\* Expression.quantize(Decimal("0.01")) of the exact value n / d (n >= 0,
\* d > 0) under the decimal context's default rounding, ROUND_HALF_EVEN.
quantize(n, d) ==
  LET q == n \div d
      r == n % d
  IN  IF 2 * r < d THEN q
      ELSE IF 2 * r > d THEN q + 1
      ELSE IF q % 2 = 0 THEN q ELSE q + 1

\* order_by("received_at", "id")
FifoBefore(a, b, rows) ==
  \/ rows[a].received_at < rows[b].received_at
  \/ rows[a].received_at = rows[b].received_at /\ a < b

\* A variant of the FEFO order with the rows without expiry first.
FefoBeforeNullsFirst(a, b, rows) ==
  \/ rows[a].expiry = NoExpiry /\ rows[b].expiry # NoExpiry
  \/ rows[a].expiry # NoExpiry /\ rows[b].expiry # NoExpiry
       /\ rows[a].expiry < rows[b].expiry
  \/ rows[a].expiry = rows[b].expiry /\ FifoBefore(a, b, rows)

\* order_by(F("expiry").asc(nulls_last=True), "received_at", "id")
FefoBefore(a, b, rows) ==
  \/ rows[a].expiry # NoExpiry /\ rows[b].expiry = NoExpiry
  \/ rows[a].expiry # NoExpiry /\ rows[b].expiry # NoExpiry
       /\ rows[a].expiry < rows[b].expiry
  \/ rows[a].expiry = rows[b].expiry /\ FifoBefore(a, b, rows)

\* A variant of the filter that forgets the outlet.
CandidatesOfProduct(product_id, outlet_id, rows) ==
  { b \in BatchIds : rows[b].product = product_id }

\* filter(product_id=product_id, outlet_id=outlet_id)
Candidates(product_id, outlet_id, rows) ==
  { b \in BatchIds : rows[b].product = product_id /\ rows[b].outlet = outlet_id }

Sorted(S, Before(_, _, _), rows) ==
  CHOOSE seq \in [1..Cardinality(S) -> S] :
    /\ \A i, j \in 1..Cardinality(S) : i < j => Before(seq[i], seq[j], rows)

RowsByExpiry(product_id, outlet_id, rows) ==
  Sorted(Candidates(product_id, outlet_id, rows), FefoBefore, rows)

\* A variant of pick_batches_fifo with the ORDER BY of pick_batches_fefo.
pick_batches_fifo_by_expiry(product_id, outlet_id, rows) ==
  RowsByExpiry(product_id, outlet_id, rows)

\* The row order of the query of pick_batches_fifo.
pick_batches_fifo(product_id, outlet_id, rows) ==
  Sorted(Candidates(product_id, outlet_id, rows), FifoBefore, rows)

\* The row order of the query of pick_batches_fefo.
pick_batches_fefo(product_id, outlet_id, rows) ==
  RowsByExpiry(product_id, outlet_id, rows)

\* A variant of the final check that never raises.
InsufficientNeverRaised(remaining) == FALSE

\* A variant of the final check without the tolerance.
InsufficientWithoutTolerance(remaining) == remaining > 0

\* _allocate_fifo called on its own, outside a run of the engine: the rows and
\* the quantity it is given and, once it has returned, its result.
VARIABLE probe

NoProbe == [at |-> "off", batches |-> << >>, qty_needed |-> 0,
            raised |-> FALSE, allocations |-> << >>]

\* The quantities of a probe are counted in steps of 1/FineScale = 2^-21 of a
\* unit, which floats hold exactly and which are finer than the epsilon.
FineScale == 2097152
Resolution == IF probe = NoProbe THEN QtyScale ELSE FineScale

\* remaining > 1e-6
Insufficient(remaining) == remaining * EpsDen > EpsNum * Resolution

\* A variant of the loop that takes at most one step of quantity from a row.
RECURSIVE AllocLoopOneStep(_, _, _, _)
AllocLoopOneStep(bs, i, remaining, allocations) ==
  IF i > Len(bs) \/ remaining <= 0
  THEN [remaining |-> remaining, allocations |-> allocations]
  ELSE IF bs[i].qty_remaining <= 0
       THEN AllocLoopOneStep(bs, i + 1, remaining, allocations)
       ELSE AllocLoopOneStep(bs, i + 1, remaining - 1,
                             Append(allocations, [batch |-> bs[i], qty |-> 1]))

\* The loop of _allocate_fifo over the fetched rows bs (a sequence of
\* [id, qty_remaining, unit_cost]) from position i on.
RECURSIVE AllocLoop(_, _, _, _)
AllocLoop(bs, i, remaining, allocations) ==
  IF i > Len(bs) \/ remaining <= 0
  THEN [remaining |-> remaining, allocations |-> allocations]
  ELSE LET available == Max(bs[i].qty_remaining, 0)
           use_qty == Min(available, remaining)
       IN  IF available <= 0 \/ use_qty <= 0
           THEN AllocLoop(bs, i + 1, remaining, allocations)
           ELSE AllocLoop(bs, i + 1, remaining - use_qty,
                          Append(allocations, [batch |-> bs[i], qty |-> use_qty]))

\* A variant of _allocate_fifo that takes what is still needed from each row
\* without looking at what the row has.
RECURSIVE AllocLoopNoMin(_, _, _, _)
AllocLoopNoMin(bs, i, remaining, allocations) ==
  IF i > Len(bs) \/ remaining <= 0
  THEN [remaining |-> remaining, allocations |-> allocations]
  ELSE AllocLoopNoMin(bs, i + 1, 0,
                      Append(allocations, [batch |-> bs[i], qty |-> remaining]))

allocate_fifo_no_min(bs, qty_needed) ==
  LET r == AllocLoopNoMin(bs, 1, qty_needed, << >>)
  IN  [raised |-> Insufficient(r.remaining), allocations |-> r.allocations]

\* _allocate_fifo: the allocations, or the ValueError (raised = TRUE).
allocate_fifo(bs, qty_needed) ==
  LET r == AllocLoop(bs, 1, qty_needed, << >>)
  IN  [raised |-> Insufficient(r.remaining), allocations |-> r.allocations]

\* A variant of the decrement with its operands exchanged, and no clamp.
DecrementedOperandsSwapped(qty_remaining, use_qty) == use_qty - qty_remaining

\* batch.qty_remaining after one allocation: the difference, clamped at 0.
Decremented(qty_remaining, use_qty) ==
  IF qty_remaining - use_qty < 0 THEN 0 ELSE qty_remaining - use_qty


VARIABLES
  batches,    \* the committed PurchaseBatch rows, by id
  sales,      \* the ids of the committed Sale rows (their SaleItems with them)
  cogs,       \* the committed CogsEntry rows of each SaleItem, in insertion order
  allocated,  \* history: the committed allocations [batch, qty] of each SaleItem
  locks,      \* the holder of each PurchaseBatch row lock, or NoProc
  pc,         \* where each connection stands in compute_cogs_for_sale
  call,       \* the invocation each connection runs: sale, method, items, idx
  work,       \* the locals of the current line: query rows, allocations, sums
  txn,        \* each connection's uncommitted writes
  calls,      \* history: the invocations started, each with its outcome, whether
              \* every line had its entry at the start, and the writes undone
  ndeletes,   \* the DELETE /sales/<id>/ requests served
  lines,      \* the ids of the committed SaleItem rows
  ledger      \* the committed StockLedger rows and the last id given to one

VARIABLES
  jobs,       \* the committed ImportJob rows, by id
  imports     \* the POST /imports/start/ request of each job: its input, where
              \* it stands in ImportStartView.post, and its response

vars == <<batches, sales, cogs, allocated, locks, pc, call, work, txn, calls, ndeletes,
          lines, ledger, probe, jobs, imports>>

\* The committed SaleItem rows of sale s.
ItemsOf(s) == { i \in lines : i[1] = s }

NoWrite == 0 - 1
NoCall == [id |-> 0, sale |-> 0, method |-> FIFO, items |-> << >>, idx |-> 0]
NoWork == [order |-> << >>, rows |-> << >>, allocations |-> << >>, k |-> 0,
           total_cost |-> 0, weighted_qty |-> 0]
NoTxn == [rem |-> [b \in BatchIds |-> NoWrite], entries |-> << >>, dec |-> << >>]

\* The receipts of product 1 at outlet 1 the runs start from: the quantity of
\* batches 1 and 2, then the received_at and the expiry of each.
Receipts ==
  { <<5, 1, 10, 2, 5>>, <<5, 1, NoExpiry, 2, NoExpiry>>, <<5, 1, 5, 2, NoExpiry>>,
    <<5, 2, 5, 1, 5>>, <<3, 2, 10, 1, 5>>, <<3, 1, 10, 2, 5>>,
    <<3, 1, NoExpiry, 1, 5>>, <<3, 1, 5, 1, 5>> }

INGREDIENT == "ingredient"
PRODUCT == "product"

\* The StockLedger row SaleSerializer.create writes for the SaleItem i.
SaleMovement(id, i) ==
  [id |-> id, item_type |-> PRODUCT, item_id |-> SaleItems(i[1])[i[2]].product,
   outlet |-> SaleOutlet(i[1]), qty_in |-> 0, qty_out |-> SaleItems(i[1])[i[2]].qty,
   reason |-> "sale", ref_id |-> i]

\* The write_items of sale s in request order, and the ledger once the
\* movements of the items from position k on are inserted.
LinesWritten(s) == [k \in 1..Cardinality(write_items(s)) |-> <<s, k>>]

RECURSIVE Posted(_, _, _)
Posted(led, items, k) ==
  IF k > Len(items) THEN led
  ELSE Posted([rows |-> led.rows \cup {SaleMovement(led.last_id + 1, items[k])},
               last_id |-> led.last_id + 1], items, k + 1)

\* The ledger after the creation, in id order, of the existing sales up to s.
RECURSIVE LedgerOf(_, _)
LedgerOf(existing, s) ==
  IF s = 0 THEN [rows |-> {}, last_id |-> 0]
  ELSE IF s \in existing
       THEN Posted(LedgerOf(existing, s - 1), LinesWritten(s), 1)
       ELSE LedgerOf(existing, s - 1)

\* The tables once the batches of a receipt are entered and the existing
\* sales are created, with no connection at work.
InitWith(existing, receipts) ==
  /\ \E r \in receipts :
       batches = (1 :> PurchaseBatch(1, 1, r[2], r[3], Whole(r[1]), 1000)
               @@ 2 :> PurchaseBatch(1, 1, r[4], r[5], Whole(r[1]), 2000)
               @@ 3 :> PurchaseBatch(2, 1, 1, NoExpiry, Whole(2), 2569)
               @@ 4 :> PurchaseBatch(1, 2, 1, 5, Whole(5), 500))
  /\ sales = existing
  /\ lines = UNION { write_items(s) : s \in existing }
  /\ ledger = LedgerOf(existing, BranchSale)
  /\ cogs = [i \in ItemIds |-> << >>]
  /\ allocated = [i \in ItemIds |-> << >>]
  /\ locks = [b \in BatchIds |-> NoProc]
  /\ pc = [p \in Procs |-> "idle"]
  /\ call = [p \in Procs |-> NoCall]
  /\ work = [p \in Procs |-> NoWork]
  /\ txn = [p \in Procs |-> NoTxn]
  /\ calls = << >>
  /\ ndeletes = 0
  /\ jobs = << >>
  /\ imports = << >>

Init == InitWith(SaleIds, Receipts) /\ probe = NoProbe

\* The item of the line connection p is at.
Item(p) == call[p].items[call[p].idx]
Line(p) == SaleItems(Item(p)[1])[Item(p)[2]]

\* A variant of the read that does not see the transaction's own saves.
ReadCommittedOnly(p, b) == batches[b].qty_remaining

\* What connection p reads of batch b: its own write, else the committed row.
ReadRemaining(p, b) ==
  IF txn[p].rem[b] # NoWrite THEN txn[p].rem[b] ELSE batches[b].qty_remaining

\* A variant of the existence check that finds nothing.
EntryNeverExists(p, item) == FALSE

\* A variant of the existence check that misses the committed entries.
EntryExistsInOwnWritesOnly(p, item) ==
  \E k \in 1..Len(txn[p].entries) : txn[p].entries[k].sale_item = item

\* CogsEntry.objects.filter(sale_item=item).exists(), as p sees it.
EntryExists(p, item) ==
  \/ cogs[item] # << >>
  \/ \E k \in 1..Len(txn[p].entries) : txn[p].entries[k].sale_item = item

\* list(sale.items.select_related("product"))
ItemsRead(s) ==
  IF s \in sales
  THEN SelectSeq([k \in 1..Len(SaleItems(s)) |-> <<s, k>>], LAMBDA i : i \in lines)
  ELSE << >>

\* The rows of the line's query, in the order the database locks them.
QueryOrder(method, product_id, outlet_id) ==
  IF method = FEFO
  THEN pick_batches_fefo(product_id, outlet_id, batches)
  ELSE pick_batches_fifo(product_id, outlet_id, batches)

\* A variant of the commit whose saves write the whole row, unit_cost included.
BatchesAfterCommitRepriced(p) ==
  [b \in BatchIds |->
     IF txn[p].rem[b] # NoWrite
     THEN [batches[b] EXCEPT !.qty_remaining = txn[p].rem[b], !.unit_cost = 0]
     ELSE batches[b]]

\* The committed tables after connection p's transaction commits.
BatchesAfterCommit(p) ==
  [b \in BatchIds |->
     IF txn[p].rem[b] # NoWrite
     THEN [batches[b] EXCEPT !.qty_remaining = txn[p].rem[b]]
     ELSE batches[b]]

RECURSIVE Inserted(_, _, _)
Inserted(table, entries, k) ==
  IF k > Len(entries) THEN table
  ELSE Inserted([table EXCEPT ![entries[k].sale_item] = Append(@, entries[k])],
                entries, k + 1)

CogsAfterCommit(p) == Inserted(cogs, txn[p].entries, 1)

RECURSIVE Logged(_, _, _)
Logged(log, dec, k) ==
  IF k > Len(dec) THEN log
  ELSE Logged([log EXCEPT ![dec[k].item] =
                 Append(@, [batch |-> dec[k].batch, qty |-> dec[k].qty])],
              dec, k + 1)

\* A variant of the rollback that keeps the batch rows saved so far, as saves
\* outside an atomic block would.
BatchesAfterRollbackKeepingSaves(p) == BatchesAfterCommit(p)

\* The committed tables after connection p's transaction is rolled back.
BatchesAfterRollback(p) == batches
CogsAfterRollback(p) == cogs

Finish(p, outcome) ==
  /\ pc' = [pc EXCEPT ![p] = "idle"]
  /\ calls' = [calls EXCEPT ![call[p].id].outcome = outcome,
                            ![call[p].id].undone =
                               IF outcome = "ok" THEN 0
                               ELSE Len(txn[p].dec) + Len(txn[p].entries)]
  /\ call' = [call EXCEPT ![p] = NoCall]
  /\ work' = [work EXCEPT ![p] = NoWork]
  /\ txn' = [txn EXCEPT ![p] = NoTxn]
  /\ locks' = [b \in BatchIds |-> IF locks[b] = p THEN NoProc ELSE locks[b]]

\* An exception leaves the transaction.atomic block: ROLLBACK.
Rollback(p, outcome) ==
  /\ batches' = BatchesAfterRollback(p)
  /\ cogs' = CogsAfterRollback(p)
  /\ UNCHANGED <<sales, allocated, ndeletes, lines, ledger, probe, jobs, imports>>
  /\ Finish(p, outcome)

\* The next line of the sale, or the end of the loop.
NextLine(p) ==
  /\ call' = [call EXCEPT ![p].idx = @ + 1]
  /\ pc' = [pc EXCEPT ![p] =
              IF call[p].idx + 1 > Len(call[p].items) THEN "commit" ELSE "check"]
  /\ work' = [work EXCEPT ![p] = NoWork]

\* compute_cogs_for_sale, lines 59-64, called on the first idle connection: the
\* items are read, and the transaction begins unless the sale has none.
Begin(p, s, m) ==
  /\ pc[p] = "idle"
  /\ \A q \in Procs : q < p => pc[q] # "idle"
  /\ Len(calls) < MaxCalls
  /\ LET items == ItemsRead(s)
         id == Len(calls) + 1
         costed == items # << >> /\ \A k \in 1..Len(items) : cogs[items[k]] # << >>
         rec == [sale |-> s, method |-> m, proc |-> p, precosted |-> costed,
                 undone |-> 0]
     IN  IF items = << >>
         THEN /\ calls' = Append(calls, rec @@ [outcome |-> "ok"])
              /\ UNCHANGED <<pc, call>>
         ELSE /\ calls' = Append(calls, rec @@ [outcome |-> "running"])
              /\ pc' = [pc EXCEPT ![p] = "check"]
              /\ call' = [call EXCEPT ![p] =
                   [id |-> id, sale |-> s, method |-> m, items |-> items, idx |-> 1]]
  /\ UNCHANGED <<batches, sales, cogs, allocated, locks, work, txn, ndeletes, lines,
                 ledger, probe, jobs, imports>>

\* Lines 65-76: a line that has its CogsEntry is skipped; for any other line
\* the query of pick_batches_fifo or pick_batches_fefo is issued.
CheckExists(p) ==
  /\ pc[p] = "check"
  /\ IF EntryExists(p, Item(p))
     THEN NextLine(p)
     ELSE LET order == QueryOrder(call[p].method, Line(p).product,
                                  SaleOutlet(call[p].sale))
          IN  /\ work' = [work EXCEPT ![p] = [NoWork EXCEPT !.order = order]]
              /\ pc' = [pc EXCEPT ![p] = IF order = << >> THEN "alloc" ELSE "lock"]
              /\ UNCHANGED call
  /\ UNCHANGED <<batches, sales, cogs, allocated, locks, txn, calls, ndeletes, lines,
                 ledger, probe, jobs, imports>>

\* select_for_update(): the query locks its rows one at a time in its ORDER BY
\* order, waits for a row another transaction holds, and fetches each row as
\* it is once locked.
LockRow(p) ==
  /\ pc[p] = "lock"
  /\ LET b == work[p].order[Len(work[p].rows) + 1]
         row == [id |-> b, qty_remaining |-> ReadRemaining(p, b),
                 unit_cost |-> batches[b].unit_cost]
     IN  /\ locks[b] \in {NoProc, p}
         /\ locks' = [locks EXCEPT ![b] = p]
         /\ work' = [work EXCEPT ![p].rows = Append(@, row)]
         /\ pc' = [pc EXCEPT ![p] =
              IF Len(work[p].rows) + 1 = Len(work[p].order) THEN "alloc" ELSE "lock"]
  /\ UNCHANGED <<batches, sales, cogs, allocated, call, txn, calls, ndeletes, lines,
                 ledger, probe, jobs, imports>>

\* _allocate_fifo on the fetched rows: the allocations of the line, or the
\* ValueError, which leaves the atomic block.
Allocate(p) ==
  /\ pc[p] = "alloc"
  /\ LET r == allocate_fifo(work[p].rows, Line(p).qty)
     IN  IF r.raised
         THEN Rollback(p, "insufficient")
         ELSE /\ work' = [work EXCEPT ![p].allocations = r.allocations, ![p].k = 1]
              /\ pc' = [pc EXCEPT ![p] =
                   IF r.allocations = << >> THEN "create" ELSE "dec"]
              /\ UNCHANGED <<batches, sales, cogs, allocated, locks, call, txn,
                             calls, ndeletes, lines, ledger, probe, jobs, imports>>

\* Lines 80-89, one turn of the loop: the sums grow and the batch is saved
\* with its decremented qty_remaining.
Decrement(p) ==
  /\ pc[p] = "dec"
  /\ LET a == work[p].allocations[work[p].k]
         last == work[p].k = Len(work[p].allocations)
     IN  /\ txn' = [txn EXCEPT
                ![p].rem[a.batch.id] = Decremented(a.batch.qty_remaining, a.qty),
                ![p].dec = Append(@, [item |-> Item(p), batch |-> a.batch.id,
                                      qty |-> a.qty])]
         /\ work' = [work EXCEPT
                ![p].total_cost = @ + a.qty * a.batch.unit_cost,
                ![p].weighted_qty = @ + a.qty,
                ![p].k = @ + 1]
         /\ pc' = [pc EXCEPT ![p] = IF last THEN "create" ELSE "dec"]
  /\ UNCHANGED <<batches, sales, cogs, allocated, locks, call, calls, ndeletes, lines,
                 ledger, probe, jobs, imports>>

\* A variant of the entry whose unit_cost is not divided by the quantity.
NewEntryUndivided(p) ==
  [sale_item |-> Item(p),
   product |-> Line(p).product,
   outlet |-> SaleOutlet(call[p].sale),
   qty |-> Line(p).qty,
   unit_cost |-> quantize(work[p].total_cost, QtyScale),
   total_cost |-> quantize(work[p].total_cost, QtyScale),
   method |-> call[p].method]

\* Lines 91-102: the CogsEntry of the line.
NewEntry(p) ==
  [sale_item |-> Item(p),
   product |-> Line(p).product,
   outlet |-> SaleOutlet(call[p].sale),
   qty |-> Line(p).qty,
   unit_cost |-> IF work[p].weighted_qty # 0
                 THEN quantize(work[p].total_cost, work[p].weighted_qty)
                 ELSE 0,
   total_cost |-> quantize(work[p].total_cost, QtyScale),
   method |-> call[p].method]

\* Another transaction's uncommitted CogsEntry of the same sale_item: the
\* INSERT waits for that transaction to end (the OneToOneField's unique index).
InsertBlocker(p) ==
  { q \in Procs \ {p} :
      \E k \in 1..Len(txn[q].entries) : txn[q].entries[k].sale_item = Item(p) }

\* CogsEntry.objects.create: a committed entry of the same sale_item is an
\* IntegrityError, which leaves the atomic block.
CreateEntry(p) ==
  /\ pc[p] = "create"
  /\ InsertBlocker(p) = {}
  /\ IF cogs[Item(p)] # << >>
     THEN Rollback(p, "integrity")
     ELSE /\ txn' = [txn EXCEPT ![p].entries = Append(@, NewEntry(p))]
          /\ NextLine(p)
          /\ UNCHANGED <<batches, sales, cogs, allocated, locks, calls, ndeletes, lines,
                 ledger, probe, jobs, imports>>

\* The atomic block ends: COMMIT.  The deferred foreign key of a new CogsEntry
\* to a SaleItem that was deleted meanwhile is an IntegrityError.
Commit(p) ==
  /\ pc[p] = "commit"
  /\ IF txn[p].entries # << >> /\ call[p].sale \notin sales
     THEN Rollback(p, "integrity")
     ELSE /\ batches' = BatchesAfterCommit(p)
          /\ cogs' = CogsAfterCommit(p)
          /\ allocated' = Logged(allocated, txn[p].dec, 1)
          /\ UNCHANGED <<sales, ndeletes, lines, ledger, probe, jobs, imports>>
          /\ Finish(p, "ok")

\* A storage fault, a timeout or a cancellation inside the atomic block.
Fault(p) ==
  /\ pc[p] # "idle"
  /\ Rollback(p, "fault")

\* The connection p waits for, if any.
Blockers(p) ==
  IF pc[p] = "lock"
  THEN {locks[work[p].order[Len(work[p].rows) + 1]]} \ {NoProc, p}
  ELSE IF pc[p] = "create" THEN InsertBlocker(p) ELSE {}

RECURSIVE WaitsFor(_, _)
WaitsFor(S, n) ==
  IF n = 0 THEN S
  ELSE WaitsFor(S \cup UNION { Blockers(q) : q \in S }, n - 1)

\* The database finds p in a cycle of waiting transactions and aborts it.
DeadlockAbort(p) ==
  /\ p \in WaitsFor(Blockers(p), Cardinality(Procs))
  /\ Rollback(p, "deadlock")

\* SaleViewSet.destroy: instance.delete() removes the Sale, its SaleItems
\* (on_delete=CASCADE) and their CogsEntry rows (on_delete=CASCADE).
DeleteSale(s) ==
  /\ s \in sales
  /\ ndeletes < MaxDeletes
  /\ sales' = sales \ {s}
  /\ cogs' = [i \in ItemIds |-> IF i[1] = s THEN << >> ELSE cogs[i]]
  /\ lines' = { i \in lines : i[1] # s }
  /\ ndeletes' = ndeletes + 1
  /\ UNCHANGED <<batches, allocated, locks, pc, call, work, txn, calls, ledger, probe, jobs, imports>>

\* The costing engine: any invocations of compute_cogs_for_sale, interleaved.
Next ==
  \/ \E p \in Procs, s \in SaleIds, m \in Methods : Begin(p, s, m)
  \/ \E p \in Procs : CheckExists(p)
  \/ \E p \in Procs : LockRow(p)
  \/ \E p \in Procs : Allocate(p)
  \/ \E p \in Procs : Decrement(p)
  \/ \E p \in Procs : CreateEntry(p)
  \/ \E p \in Procs : Commit(p)
  \/ \E p \in Procs : Fault(p)
  \/ \E p \in Procs : DeadlockAbort(p)

Spec == Init /\ [][Next]_vars

\* The application: the costing engine and the sale deletions of the REST API.
NextApp ==
  \/ \E p \in Procs, s \in SaleIds, m \in Methods : Begin(p, s, m)
  \/ \E p \in Procs : CheckExists(p)
  \/ \E p \in Procs : LockRow(p)
  \/ \E p \in Procs : Allocate(p)
  \/ \E p \in Procs : Decrement(p)
  \/ \E p \in Procs : CreateEntry(p)
  \/ \E p \in Procs : Commit(p)
  \/ \E p \in Procs : Fault(p)
  \/ \E p \in Procs : DeadlockAbort(p)
  \/ \E s \in SaleIds : DeleteSale(s)

AppSpec == Init /\ [][NextApp]_vars

-----------------------------------------------------------------------------
(* The creation of sales: POST /sales/. *)

\* SaleSerializer.create, one transaction: the Sale, a SaleItem and a
\* StockLedger 'sale' movement for each of the write_items, the totals.  It
\* does not call compute_cogs_for_sale (nothing in the repository does).
CreateSale(s) ==
  /\ s \in SaleIds \ sales
  /\ \A m \in ledger.rows : m.ref_id[1] # s
  /\ sales' = sales \cup {s}
  /\ lines' = lines \cup write_items(s)
  /\ ledger' = Posted(ledger, LinesWritten(s), 1)
  /\ UNCHANGED <<batches, cogs, allocated, locks, pc, call, work, txn, calls,
                 ndeletes, probe, jobs, imports>>

\* A variant of the atomic decorator that leaves the writes of a request that
\* raised in place, as autocommit would.
KeptWithoutAtomic(before, written) == written

\* @transaction.atomic on create: the writes of a request that raises are
\* rolled back.
RolledBack(before, written) == before

\* POST /sales/ with a payload whose line k names a product that does not
\* exist: Product.objects.get raises Product.DoesNotExist after the Sale, and
\* the SaleItem and the movement of each earlier line, are written.  The
\* transaction is rolled back; the ids drawn from the sequence of the
\* StockLedger table are not given back.
CreateSaleUnknownProduct(s, k) ==
  /\ s \in SaleIds \ sales
  /\ \A m \in ledger.rows : m.ref_id[1] # s
  /\ k \in 1..Len(LinesWritten(s))
  /\ ledger.last_id + (k - 1) <= MaxLedger
  /\ LET items == SubSeq(LinesWritten(s), 1, k - 1)
         posted == Posted(ledger, items, 1)
     IN  /\ sales' = RolledBack(sales, sales \cup {s})
         /\ lines' = RolledBack(lines, lines \cup { items[j] : j \in 1..Len(items) })
         /\ ledger' = [rows |-> RolledBack(ledger.rows, posted.rows),
                       last_id |-> posted.last_id]
  /\ UNCHANGED <<batches, cogs, allocated, locks, pc, call, work, txn, calls,
                 ndeletes, probe, jobs, imports>>

\* A shop with its batches received and no sale yet.
InitShop == InitWith({}, { <<5, 1, 10, 2, 5>> }) /\ probe = NoProbe

\* The sales API and the costing engine, the latter called by whoever calls it.
NextSale ==
  \/ \E s \in SaleIds : CreateSale(s)
  \/ \E p \in Procs, s \in SaleIds, m \in Methods : Begin(p, s, m)
  \/ \E p \in Procs : CheckExists(p)
  \/ \E p \in Procs : LockRow(p)
  \/ \E p \in Procs : Allocate(p)
  \/ \E p \in Procs : Decrement(p)
  \/ \E p \in Procs : CreateEntry(p)
  \/ \E p \in Procs : Commit(p)
  \/ \E p \in Procs : Fault(p)
  \/ \E p \in Procs : DeadlockAbort(p)

\* A call of compute_cogs_for_sale that was started runs on to its end.
Running(p) ==
  \/ CheckExists(p) \/ LockRow(p) \/ Allocate(p) \/ Decrement(p)
  \/ CreateEntry(p) \/ Commit(p) \/ DeadlockAbort(p)

SaleSpec == InitShop /\ [][NextSale]_vars /\ \A p \in Procs : WF_vars(Running(p))

-----------------------------------------------------------------------------
(* The admin site: admin.site.register(SaleItem). *)

\* The add form of SaleItem: a new line on an existing sale.  Nothing else is
\* written: no StockLedger movement, no CogsEntry.
AdminAddSaleItem(i) ==
  /\ i \in AdminLines \ lines
  /\ i[1] \in sales
  /\ lines' = lines \cup {i}
  /\ UNCHANGED <<batches, sales, cogs, allocated, locks, pc, call, work, txn, calls,
                 ndeletes, ledger, probe, jobs, imports>>

\* The costing engine on sales whose lines the admin site adds to.
NextLines ==
  \/ \E i \in AdminLines : AdminAddSaleItem(i)
  \/ \E p \in Procs, s \in SaleIds, m \in Methods : Begin(p, s, m)
  \/ \E p \in Procs : CheckExists(p)
  \/ \E p \in Procs : LockRow(p)
  \/ \E p \in Procs : Allocate(p)
  \/ \E p \in Procs : Decrement(p)
  \/ \E p \in Procs : CreateEntry(p)
  \/ \E p \in Procs : Commit(p)
  \/ \E p \in Procs : Fault(p)
  \/ \E p \in Procs : DeadlockAbort(p)

\* The sales created, the batches received with 5 or with 3 units each.
InitLines ==
  InitWith(SaleIds, { <<5, 1, 10, 2, 5>>, <<3, 1, 10, 2, 5>> }) /\ probe = NoProbe

LineSpec == InitLines /\ [][NextLines]_vars

-----------------------------------------------------------------------------
(* The sales API with requests that fail, and the admin's added lines. *)

NextCreate ==
  \/ \E s \in SaleIds : CreateSale(s)
  \/ \E s \in SaleIds, k \in 1..2 : CreateSaleUnknownProduct(s, k)
  \/ \E i \in AdminLines : AdminAddSaleItem(i)

CreateSpec == InitShop /\ [][NextCreate]_vars

-----------------------------------------------------------------------------
(* The imports: POST /imports/start/. *)

MaxJobs == 2

STATUS_QUEUED == "queued"
STATUS_RUNNING == "running"
STATUS_DONE == "done"
STATUS_ERROR == "error"
NULL == "null"

\* Where the rows of a request come from, and in what condition the source is.
ImportInputs ==
  { [source |-> "file.csv", condition |-> "readable"],
    [source |-> "file.xlsx", condition |-> "readable"],
    [source |-> "file.xlsx", condition |-> "corrupt"],
    [source |-> "file.txt", condition |-> "readable"],
    [source |-> "sheet_url", condition |-> "readable"],
    [source |-> "sheet_url", condition |-> "blank"],
    [source |-> "sheet_url", condition |-> "unreachable"],
    [source |-> "sheet_url", condition |-> "http error"],
    [source |-> "sheet_url", condition |-> "not utf-8"],
    [source |-> "nothing", condition |-> "readable"] }

\* load_tabular: the rows, a ValidationError, or whatever else the readers
\* raise (openpyxl on a corrupt workbook; requests.get, raise_for_status and
\* decode("utf-8") on a sheet that cannot be fetched or read).
load_tabular(input) ==
  CASE input.source = "file.csv" -> "rows"
    [] input.source = "file.xlsx" ->
         IF input.condition = "corrupt" THEN "Exception" ELSE "rows"
    [] input.source = "file.txt" -> "ValidationError"
    [] input.source = "sheet_url" ->
         IF input.condition = "blank" THEN "ValidationError"
         ELSE IF input.condition = "readable" THEN "rows"
         ELSE "Exception"
    [] input.source = "nothing" -> "ValidationError"

\* What _run_product_import or _run_sales_import can end with.
ImportOutcomes == {"result", "ValidationError", "Exception"}

\* job.save(update_fields=[...]) of a finished job.
Finished_at(job, job_status) == [job EXCEPT !.status = job_status, !.finished_at = "now"]

\* Lines 388-393: ImportJob.objects.create(status=STATUS_QUEUED).
ImportCreate(input) ==
  /\ Len(jobs) < MaxJobs
  /\ jobs' = Append(jobs, [status |-> STATUS_QUEUED, finished_at |-> NULL])
  /\ imports' = Append(imports, [input |-> input, at |-> "created", response |-> 0])
  /\ UNCHANGED <<batches, sales, cogs, allocated, locks, pc, call, work, txn, calls,
                 ndeletes, lines, ledger, probe>>

\* Lines 395-396: the job is saved as running.
ImportRun(j) ==
  /\ imports[j].at = "created"
  /\ jobs' = [jobs EXCEPT ![j].status = STATUS_RUNNING]
  /\ imports' = [imports EXCEPT ![j].at = "running"]
  /\ UNCHANGED <<batches, sales, cogs, allocated, locks, pc, call, work, txn, calls,
                 ndeletes, lines, ledger, probe>>

\* Lines 398-407: the rows are loaded; a ValidationError ends the job and
\* the request with a 400; any other exception leaves the view.
ImportLoad(j) ==
  /\ imports[j].at = "running"
  /\ LET loaded == load_tabular(imports[j].input)
     IN  CASE loaded = "rows" ->
                /\ imports' = [imports EXCEPT ![j].at = "loaded"]
                /\ UNCHANGED jobs
           [] loaded = "ValidationError" ->
                /\ jobs' = [jobs EXCEPT ![j] = Finished_at(@, STATUS_ERROR)]
                /\ imports' = [imports EXCEPT ![j].at = "ended", ![j].response = 400]
           [] loaded = "Exception" ->
                /\ imports' = [imports EXCEPT ![j].at = "ended", ![j].response = 500]
                /\ UNCHANGED jobs
  /\ UNCHANGED <<batches, sales, cogs, allocated, locks, pc, call, work, txn, calls,
                 ndeletes, lines, ledger, probe>>

\* Lines 409-445: the rows are mapped and imported, the job is saved as done
\* or, on an exception of the import, as error, and the response returned.
ImportRows(j, outcome) ==
  /\ imports[j].at = "loaded"
  /\ jobs' = [jobs EXCEPT ![j] =
                 Finished_at(@, IF outcome = "result" THEN STATUS_DONE ELSE STATUS_ERROR)]
  /\ imports' = [imports EXCEPT
       ![j].at = "ended",
       ![j].response = CASE outcome = "result" -> 200
                         [] outcome = "ValidationError" -> 400
                         [] outcome = "Exception" -> 500]
  /\ UNCHANGED <<batches, sales, cogs, allocated, locks, pc, call, work, txn, calls,
                 ndeletes, lines, ledger, probe>>

NextImport ==
  \/ \E input \in ImportInputs : ImportCreate(input)
  \/ \E j \in 1..Len(jobs) : ImportRun(j)
  \/ \E j \in 1..Len(jobs) : ImportLoad(j)
  \/ \E j \in 1..Len(jobs), outcome \in ImportOutcomes : ImportRows(j, outcome)

\* A request that was received is served to its end.
Serving(j) ==
  \/ ImportRun(j) \/ ImportLoad(j) \/ \E outcome \in ImportOutcomes : ImportRows(j, outcome)

ImportSpec ==
  InitShop /\ [][NextImport]_vars /\ \A j \in 1..MaxJobs : WF_vars(j <= Len(jobs) /\ Serving(j))

-----------------------------------------------------------------------------
(* The two outlets: the costing engine on the sales of both. *)

\* The sales of both outlets created, the batches received.
InitBranch ==
  InitWith(SaleIds \cup {BranchSale}, { <<5, 1, 10, 2, 5>> }) /\ probe = NoProbe

NextBranch ==
  \/ AdminAddSaleItem(<<BranchSale, 3>>)
  \/ \E p \in Procs, s \in SaleIds \cup {BranchSale}, m \in Methods : Begin(p, s, m)
  \/ \E p \in Procs : CheckExists(p)
  \/ \E p \in Procs : LockRow(p)
  \/ \E p \in Procs : Allocate(p)
  \/ \E p \in Procs : Decrement(p)
  \/ \E p \in Procs : CreateEntry(p)
  \/ \E p \in Procs : Commit(p)
  \/ \E p \in Procs : Fault(p)
  \/ \E p \in Procs : DeadlockAbort(p)

BranchSpec == InitBranch /\ [][NextBranch]_vars

-----------------------------------------------------------------------------
(* The method argument of compute_cogs_for_sale. *)

\* What a caller can pass as method: nothing, one of the METHOD_CHOICES, or
\* another string of at most four characters (the column's max_length).
Unspecified == "unspecified"
MethodArgs == {Unspecified, FIFO, FEFO, "LIFO"}

\* def compute_cogs_for_sale(sale, method: str = CogsEntry.FIFO)
MethodParameter(arg) == IF arg = Unspecified THEN FIFO ELSE arg

InitMethod == InitWith(SaleIds, { <<5, 1, 10, 2, 5>> }) /\ probe = NoProbe

NextMethod ==
  \/ \E p \in Procs, s \in SaleIds, arg \in MethodArgs : Begin(p, s, MethodParameter(arg))
  \/ \E p \in Procs : CheckExists(p)
  \/ \E p \in Procs : LockRow(p)
  \/ \E p \in Procs : Allocate(p)
  \/ \E p \in Procs : Decrement(p)
  \/ \E p \in Procs : CreateEntry(p)
  \/ \E p \in Procs : Commit(p)
  \/ \E p \in Procs : Fault(p)
  \/ \E p \in Procs : DeadlockAbort(p)

MethodSpec == InitMethod /\ [][NextMethod]_vars

-----------------------------------------------------------------------------
(* _allocate_fifo on its own. *)

\* The lists of rows _allocate_fifo is called on: any qty_remaining a
\* FloatField can hold, negative and zero included.
ProbeBatches ==
  UNION { { [k \in 1..n |-> [id |-> k, qty_remaining |-> q[k], unit_cost |-> 1000]] :
              q \in [1..n -> (0 - 1)..MaxFine] } : n \in 0..MaxRows }
ProbeNeeds == 0..(MaxRows * MaxFine + MaxFine)

InitProbe ==
  /\ InitWith(SaleIds, { <<5, 1, 10, 2, 5>> })
  /\ \E bs \in ProbeBatches, qty_needed \in ProbeNeeds :
       probe = [at |-> "called", batches |-> bs, qty_needed |-> qty_needed,
                raised |-> FALSE, allocations |-> << >>]

\* The call returns its allocations or raises the ValueError.
AllocateFifo ==
  /\ probe.at = "called"
  /\ LET r == allocate_fifo(probe.batches, probe.qty_needed)
     IN  probe' = [probe EXCEPT !.at = IF r.raised THEN "raised" ELSE "returned",
                                !.raised = r.raised,
                                !.allocations = IF r.raised THEN << >> ELSE r.allocations]
  /\ UNCHANGED <<batches, sales, cogs, allocated, locks, pc, call, work, txn, calls,
                 ndeletes, lines, ledger, jobs, imports>>

NextAlloc == AllocateFifo

AllocSpec == InitProbe /\ [][NextAlloc]_vars

-----------------------------------------------------------------------------
(* Measures of a state, used to state the properties. *)

RECURSIVE SumOver(_, _)
SumOver(S, f) ==
  IF S = {} THEN 0
  ELSE LET x == CHOOSE y \in S : TRUE IN f[x] + SumOver(S \ {x}, f)

RECURSIVE SeqSum(_, _, _)
SeqSum(seq, Val(_), k) ==
  IF k > Len(seq) THEN 0 ELSE Val(seq[k]) + SeqSum(seq, Val, k + 1)

AllocQty(a) == a.qty
AllocCost(a) == a.qty * batches[a.batch].unit_cost
EntryQty(e) == e.qty

\* The quantity the committed allocations took from batch b.
AllocatedFrom(b) ==
  LET From(a) == IF a.batch = b THEN a.qty ELSE 0
  IN  SumOver(ItemIds, [i \in ItemIds |-> SeqSum(allocated[i], From, 1)])

\* What is gone from the committed batches of a (product, outlet) pair.
Consumed(product, outlet) ==
  SumOver(Candidates(product, outlet, batches),
          [b \in BatchIds |-> batches[b].qty_in - batches[b].qty_remaining])

\* The quantity of the committed entries of a (product, outlet) pair, and
\* their number.
EntriesOf(product, outlet) ==
  { i \in ItemIds : \E k \in 1..Len(cogs[i]) :
      cogs[i][k].product = product /\ cogs[i][k].outlet = outlet }
Costed(product, outlet) ==
  SumOver(EntriesOf(product, outlet),
          [i \in ItemIds |-> SeqSum(cogs[i], EntryQty, 1)])

\* What connection p can read of the line's candidate batches.
Available(p) ==
  SumOver(Candidates(Line(p).product, SaleOutlet(call[p].sale), batches),
          [b \in BatchIds |-> Max(ReadRemaining(p, b), 0)])

Finished(c) == calls[c].outcome # "running"
Products == { batches[b].product : b \in BatchIds }
Outlets == { batches[b].outlet : b \in BatchIds }

-----------------------------------------------------------------------------
(* The stock ledger: its reports, and admin.site.register(StockLedger). *)

NoOutlet == 0

\* qs.aggregate(Sum("qty_in"), Sum("qty_out")): the two sums, then their
\* difference.
sum_qty(qs) ==
  LET tin == SumOver(qs, [m \in qs |-> m.qty_in])
      tout == SumOver(qs, [m \in qs |-> m.qty_out])
  IN  tin - tout

\* A variant of current_stock that never filters on the outlet.
current_stock_of_all_outlets(product_id, outlet_id) ==
  sum_qty({ m \in ledger.rows : m.item_type = PRODUCT /\ m.item_id = product_id })

\* alerts.current_stock
current_stock(product_id, outlet_id) ==
  LET qs == { m \in ledger.rows : m.item_type = PRODUCT /\ m.item_id = product_id }
  IN  IF outlet_id # NoOutlet
      THEN sum_qty({ m \in qs : m.outlet = outlet_id })
      ELSE sum_qty(qs)

\* inventory_overview, "outlets": for each outlet the products whose quantity
\* on hand is not 0, each with that quantity.
inventory_overview ==
  [o \in Outlets |->
     LET qty(product) ==
           sum_qty({ m \in ledger.rows :
                       m.item_type = PRODUCT /\ m.item_id = product /\ m.outlet = o })
     IN  { [product_id |-> product, qty_on_hand |-> qty(product)] :
             product \in { q \in Products : qty(q) # 0 } }]

\* The rows the add form is given in the runs: goods in, of an ingredient or
\* of a product, at either outlet.
AdminMovements ==
  { [item_type |-> ty, item_id |-> 1, outlet |-> o, qty_in |-> Whole(5),
     qty_out |-> 0, reason |-> "grn", ref_id |-> <<0, 0>>] :
      ty \in {INGREDIENT, PRODUCT}, o \in Outlets }

\* The add form of StockLedger.
AdminAddMovement(m) ==
  /\ ledger.last_id < MaxLedger
  /\ ledger' = [rows |-> ledger.rows \cup {m @@ [id |-> ledger.last_id + 1]},
                last_id |-> ledger.last_id + 1]
  /\ UNCHANGED <<batches, sales, cogs, allocated, locks, pc, call, work, txn, calls,
                 ndeletes, lines, probe, jobs, imports>>

\* The change form of StockLedger: here, a row's qty_out set to another value.
AdminChangeMovement(m, qty_out) ==
  /\ m \in ledger.rows
  /\ m.qty_out # qty_out
  /\ ledger' = [ledger EXCEPT !.rows = (@ \ {m}) \cup {[m EXCEPT !.qty_out = qty_out]}]
  /\ UNCHANGED <<batches, sales, cogs, allocated, locks, pc, call, work, txn, calls,
                 ndeletes, lines, probe, jobs, imports>>

\* The delete action of StockLedger.
AdminDeleteMovement(m) ==
  /\ m \in ledger.rows
  /\ ledger' = [ledger EXCEPT !.rows = @ \ {m}]
  /\ UNCHANGED <<batches, sales, cogs, allocated, locks, pc, call, work, txn, calls,
                 ndeletes, lines, probe, jobs, imports>>

\* The operations of the application that write the ledger.
NextLedger ==
  \/ \E s \in SaleIds : CreateSale(s)
  \/ \E m \in AdminMovements : AdminAddMovement(m)
  \/ \E m \in ledger.rows : AdminChangeMovement(m, 0)
  \/ \E m \in ledger.rows : AdminDeleteMovement(m)

LedgerSpec == InitShop /\ [][NextLedger]_vars

-----------------------------------------------------------------------------
(* C1: a second call of compute_cogs_for_sale on a sale whose lines all have
   their committed CogsEntry writes nothing, locks nothing and fails with no
   error of its own: each line keeps exactly one entry and every batch keeps
   the qty_remaining the first call left. *)
C1_SecondCallChangesNothing ==
  /\ \A p \in Procs :
       (pc[p] # "idle" /\ calls[call[p].id].precosted) =>
         /\ txn[p] = NoTxn
         /\ \A b \in BatchIds : locks[b] # p
         /\ pc[p] \in {"check", "commit"}
         /\ \A i \in ItemsOf(call[p].sale) : Len(cogs[i]) = 1
  /\ \A c \in DOMAIN calls :
       calls[c].precosted =>
         /\ calls[c].outcome \in {"running", "ok", "fault"}
         /\ calls[c].undone = 0
         /\ \A i \in ItemsOf(calls[c].sale) : Len(cogs[i]) = 1

C1_Witness ==
  /\ Len(calls) = 2
  /\ calls[1].sale = 3 /\ calls[1].outcome = "ok" /\ ~calls[1].precosted
  /\ calls[2].sale = 3 /\ calls[2].outcome = "ok" /\ calls[2].precosted
  /\ Consumed(1, 1) = Whole(5) + 1
  /\ Consumed(2, 1) = 1

(* C2: two invocations on different single-line sales of one (product,
   outlet), each asking for no more than the pair's stock and together for
   more, and hit by no storage fault, end with exactly one of them successful
   and the other failed with the insufficient-inventory error; and no batch
   has a negative qty_remaining. *)
C2_OneSucceedsOneInsufficient ==
  /\ \A b \in BatchIds : batches[b].qty_remaining >= 0
  /\ (/\ Len(calls) = 2
      /\ Finished(1) /\ Finished(2)
      /\ calls[1].outcome # "fault" /\ calls[2].outcome # "fault"
      /\ calls[1].sale # calls[2].sale
      /\ Cardinality(ItemsOf(calls[1].sale)) = 1
      /\ Cardinality(ItemsOf(calls[2].sale)) = 1
      /\ LET l1 == SaleItems(calls[1].sale)[1]
             l2 == SaleItems(calls[2].sale)[1]
             stock == SumOver(Candidates(l1.product, SaleOutlet(calls[1].sale), batches),
                              [b \in BatchIds |-> batches[b].qty_in])
         IN  /\ l1.product = l2.product
             /\ SaleOutlet(calls[1].sale) = SaleOutlet(calls[2].sale)
             /\ l1.qty <= stock /\ l2.qty <= stock
             /\ l1.qty + l2.qty > stock)
     => {calls[1].outcome, calls[2].outcome} = {"ok", "insufficient"}

(* C3: when a line asks for more than its candidate batches have left, beyond
   the epsilon, the allocation step ends the invocation with the
   insufficient-inventory error, the committed batches and entries stay as
   they were, and everything the invocation wrote for earlier lines is
   discarded. *)
Short(p) ==
  (Line(p).qty - Available(p)) * EpsDen > EpsNum * QtyScale

C3_InsufficientLeavesNoTrace ==
  [][\A p \in Procs :
       (Allocate(p) /\ Short(p)) =>
          /\ calls'[call[p].id].outcome = "insufficient"
          /\ batches' = batches
          /\ cogs' = cogs
          /\ txn'[p] = NoTxn
          /\ \A b \in BatchIds : locks'[b] # p]_vars

C3_Witness ==
  \E c \in DOMAIN calls :
    /\ calls[c].sale = 3
    /\ calls[c].outcome = "insufficient"
    /\ calls[c].undone > 0
    /\ batches[3].qty_remaining = batches[3].qty_in
    /\ cogs[<<3, 1>>] = << >>

(* C4: every batch, committed or as written inside a transaction, has
   0 <= qty_remaining <= qty_in. *)
C4_RemainingWithinBounds ==
  \A b \in BatchIds :
    /\ 0 <= batches[b].qty_remaining
    /\ batches[b].qty_remaining <= batches[b].qty_in
    /\ \A p \in Procs :
         txn[p].rem[b] # NoWrite =>
           (0 <= txn[p].rem[b] /\ txn[p].rem[b] <= batches[b].qty_in)

C4_Witness ==
  /\ \E b \in BatchIds : batches[b].qty_remaining = 0
  /\ \E b \in BatchIds :
       0 < batches[b].qty_remaining /\ batches[b].qty_remaining < batches[b].qty_in
  /\ \E p \in Procs, b \in BatchIds :
       txn[p].rem[b] # NoWrite /\ txn[p].rem[b] < batches[b].qty_remaining

(* C5: conservation: what is gone from each committed batch is the sum of the
   quantities the committed allocations took from it, and that sum is at most
   qty_in. *)
C5_Conservation ==
  \A b \in BatchIds :
    /\ batches[b].qty_in - batches[b].qty_remaining = AllocatedFrom(b)
    /\ AllocatedFrom(b) <= batches[b].qty_in

C5_Witness ==
  /\ Len(calls) = 2 /\ calls[1].outcome = "ok" /\ calls[2].outcome = "ok"
  /\ calls[1].sale # calls[2].sale
  /\ \E b \in BatchIds :
       /\ AllocatedFrom(b) = batches[b].qty_in
       /\ \E i, j \in ItemIds :
            /\ i # j
            /\ \E k \in 1..Len(allocated[i]) : allocated[i][k].batch = b
            /\ \E k \in 1..Len(allocated[j]) : allocated[j][k].batch = b

(* C6: at every moment, so whenever an invocation has ended in whatever way,
   the committed decrements and the committed entries go together: what is
   gone from the batches of a (product, outlet) pair is the quantity of the
   pair's committed entries (short by at most the epsilon per entry), a line
   with committed allocations has its entry, and a line with its entry has
   the allocations that cover its quantity. *)
C6_DecrementsIffEntry ==
  /\ \A pr \in Products, o \in Outlets :
       LET gap == Costed(pr, o) - Consumed(pr, o)
       IN  /\ 0 <= gap
           /\ gap * EpsDen <= Cardinality(EntriesOf(pr, o)) * EpsNum * QtyScale
  /\ \A i \in ItemIds :
       /\ allocated[i] # << >> => Len(cogs[i]) = 1
       /\ cogs[i] # << >> =>
            ~Insufficient(cogs[i][1].qty - SeqSum(allocated[i], AllocQty, 1))

C6_Witness ==
  \E c \in DOMAIN calls, p \in Procs :
    /\ calls[c].outcome = "fault" /\ calls[c].undone > 1
    /\ pc[p] = "create" /\ txn[p].dec # << >> /\ txn[p].entries = << >>
    /\ \A b \in BatchIds : batches[b].qty_remaining = batches[b].qty_in

(* C7: a CogsEntry, once committed, is never modified or removed by any
   operation of the application. *)
C7_EntryNeverChanges ==
  [][\A i \in ItemIds : cogs[i] # << >> => cogs'[i] = cogs[i]]_vars

\* The allocations of connection p's line take the fetched rows in the order
\* Earlier: a row is taken only after every candidate row that is Earlier and
\* had something left was taken in full.
TakenInOrder(p, Earlier(_, _)) ==
  LET allocs == work[p].allocations
      rows == work[p].rows
      Fetched(b) == { k \in 1..Len(rows) : rows[k].id = b }
      cands == { b \in BatchIds :
                   /\ batches[b].product = Line(p).product
                   /\ batches[b].outlet = SaleOutlet(call[p].sale) }
  IN  /\ \A b \in cands : Cardinality(Fetched(b)) = 1
      /\ \A j, k \in 1..Len(allocs) :
           j < k => Earlier(allocs[j].batch.id, allocs[k].batch.id)
      /\ \A k \in 1..Len(allocs), b \in cands :
           (Earlier(b, allocs[k].batch.id)
              /\ \E f \in Fetched(b) : rows[f].qty_remaining > 0)
           => \E j \in 1..(k - 1), f \in Fetched(b) :
                /\ allocs[j].batch.id = b
                /\ allocs[j].qty = rows[f].qty_remaining

Allocating(p) == pc[p] \in {"dec", "create"}

\* Both batches of product 1 at outlet 1 were fetched with n units left.
FetchedWith(p, n) ==
  /\ Line(p).product = 1
  /\ Len(work[p].rows) = 2
  /\ \A k \in 1..2 : work[p].rows[k].qty_remaining = Whole(n)

(* C8: under FIFO (any method but FEFO) the batches of the line's (product,
   outlet) are consumed in ascending (received_at, id) order; with B1
   (received day 1, 5 left, cost 10) and B2 (received day 2, 5 left, cost 20)
   a line of 7 takes 5 from B1 and 2 from B2 and leaves B1 at 0 and B2 at 3,
   whatever the expiry dates. *)
ReceivedEarlier(a, b) ==
  \/ batches[a].received_at < batches[b].received_at
  \/ batches[a].received_at = batches[b].received_at /\ a < b

FifoExample ==
  /\ batches[1].received_at = 1 /\ batches[2].received_at = 2
  /\ batches[1].qty_in = Whole(5) /\ batches[2].qty_in = Whole(5)

C8_FifoOrder ==
  /\ \A p \in Procs :
       (Allocating(p) /\ call[p].method # FEFO) =>
         /\ TakenInOrder(p, ReceivedEarlier)
         /\ (FifoExample /\ FetchedWith(p, 5) /\ Line(p).qty = Whole(7)) =>
              /\ Len(work[p].allocations) = 2
              /\ work[p].allocations[1].batch.id = 1
              /\ work[p].allocations[1].qty = Whole(5)
              /\ work[p].allocations[2].batch.id = 2
              /\ work[p].allocations[2].qty = Whole(2)
              /\ pc[p] = "create" =>
                   (txn[p].rem[1] = 0 /\ txn[p].rem[2] = Whole(3))
  /\ (/\ FifoExample
      /\ Len(calls) = 1
      /\ calls[1].sale = 1 /\ calls[1].method # FEFO /\ calls[1].outcome = "ok")
     => (batches[1].qty_remaining = 0 /\ batches[2].qty_remaining = Whole(3))

C8_Witness ==
  /\ FifoExample
  /\ batches[1].expiry = 10 /\ batches[2].expiry = 5
  /\ Len(calls) = 1
  /\ calls[1].sale = 1 /\ calls[1].method = FIFO /\ calls[1].outcome = "ok"
  /\ batches[1].qty_remaining = 0 /\ batches[2].qty_remaining = Whole(3)

(* C9: under FEFO the batches are consumed in ascending expiry order, a batch
   without expiry after every batch with one, ties broken by (received_at,
   id); with B1 (expiry day 10, 3 left) and B2 (expiry day 5, 3 left) a line
   of 4 takes 3 from B2 and then 1 from B1, whatever the received dates. *)
ExpiresEarlier(a, b) ==
  \/ batches[a].expiry # NoExpiry /\ batches[b].expiry = NoExpiry
  \/ /\ batches[a].expiry # NoExpiry /\ batches[b].expiry # NoExpiry
     /\ batches[a].expiry < batches[b].expiry
  \/ batches[a].expiry = batches[b].expiry /\ ReceivedEarlier(a, b)

FefoExample ==
  /\ batches[1].expiry = 10 /\ batches[2].expiry = 5
  /\ batches[1].qty_in = Whole(3) /\ batches[2].qty_in = Whole(3)

C9_FefoOrder ==
  /\ \A p \in Procs :
       (Allocating(p) /\ call[p].method = FEFO) =>
         /\ TakenInOrder(p, ExpiresEarlier)
         /\ (FefoExample /\ FetchedWith(p, 3) /\ Line(p).qty = Whole(4)) =>
              /\ Len(work[p].allocations) = 2
              /\ work[p].allocations[1].batch.id = 2
              /\ work[p].allocations[1].qty = Whole(3)
              /\ work[p].allocations[2].batch.id = 1
              /\ work[p].allocations[2].qty = Whole(1)
  /\ (/\ FefoExample
      /\ Len(calls) = 1
      /\ calls[1].sale = 2 /\ calls[1].method = FEFO /\ calls[1].outcome = "ok")
     => (batches[2].qty_remaining = 0 /\ batches[1].qty_remaining = Whole(2))

C9_Witness ==
  /\ FefoExample
  /\ batches[1].received_at = 1 /\ batches[2].received_at = 2
  /\ Len(calls) = 1
  /\ calls[1].sale = 2 /\ calls[1].method = FEFO /\ calls[1].outcome = "ok"
  /\ batches[2].qty_remaining = 0 /\ batches[1].qty_remaining = Whole(2)

(* C10: the unit_cost and the total_cost of every CogsEntry are the exact
   blended unit cost and the exact total cost of its allocations, rounded
   half-up to the cent. *)
RoundHalfUp(n, d) == IF 2 * (n % d) >= d THEN (n \div d) + 1 ELSE n \div d

C10_RoundedHalfUp ==
  \A i \in ItemIds : \A k \in 1..Len(cogs[i]) :
    LET exact_cost == SeqSum(allocated[i], AllocCost, 1)
        consumed == SeqSum(allocated[i], AllocQty, 1)
    IN  /\ cogs[i][k].total_cost = RoundHalfUp(exact_cost, QtyScale)
        /\ cogs[i][k].unit_cost =
             IF consumed # 0 THEN RoundHalfUp(exact_cost, consumed) ELSE 0

\* What the rows of the probe have to give, and the rows that have something.
ProbeTotal ==
  SumOver(DOMAIN probe.batches,
          [k \in DOMAIN probe.batches |-> Max(probe.batches[k].qty_remaining, 0)])
ProbeStocked == { k \in DOMAIN probe.batches : probe.batches[k].qty_remaining > 0 }
ProbeDone == probe.at \in {"returned", "raised"}

\* x steps of 1/FineScale are at most 1e-6.
WithinEpsilon(x) == x * 1000000 <= FineScale

(* C11: a quantity that exceeds what the candidate batches have left by at
   most 1e-6 is allocated, and takes all of every candidate batch; a quantity
   that exceeds it by more than 1e-6 raises the insufficient-inventory error. *)
C11_EpsilonTolerance ==
  ProbeDone =>
    LET excess == probe.qty_needed - ProbeTotal
    IN  /\ WithinEpsilon(excess) => probe.at = "returned"
        /\ (WithinEpsilon(excess) /\ excess >= 0) =>
             \A k \in ProbeStocked :
               \E a \in DOMAIN probe.allocations :
                 /\ probe.allocations[a].batch.id = k
                 /\ probe.allocations[a].qty = probe.batches[k].qty_remaining
        /\ ~WithinEpsilon(excess) => probe.at = "raised"

C11_Witness ==
  /\ probe.at = "returned"
  /\ probe.qty_needed > ProbeTotal
  /\ Len(probe.allocations) = 2

-----------------------------------------------------------------------------
(* compute_cogs_for_sale run alone, from its first line to its COMMIT or
   ROLLBACK, on the tables db = [batches, cogs]. *)

\* The rows the line's query fetches from db, in its ORDER BY order.
RowsFetched(db, method, product_id, outlet_id) ==
  LET order == QueryOrder(method, product_id, outlet_id)
  IN  [j \in 1..Len(order) |->
         [id |-> order[j], qty_remaining |-> db[order[j]].qty_remaining,
          unit_cost |-> db[order[j]].unit_cost]]

\* Lines 80-89 for the allocations from position k on.
RECURSIVE Saved(_, _, _)
Saved(bt, allocations, k) ==
  IF k > Len(allocations) THEN bt
  ELSE LET a == allocations[k]
       IN  Saved([bt EXCEPT ![a.batch.id].qty_remaining =
                    Decremented(a.batch.qty_remaining, a.qty)],
                 allocations, k + 1)

RowCost(a) == a.qty * a.batch.unit_cost

\* Lines 91-102 for the SaleItem i with its allocations.
Entry(i, method, allocations) ==
  LET total_cost == SeqSum(allocations, RowCost, 1)
      weighted_qty == SeqSum(allocations, AllocQty, 1)
  IN  [sale_item |-> i,
       product |-> SaleItems(i[1])[i[2]].product,
       outlet |-> SaleOutlet(i[1]),
       qty |-> SaleItems(i[1])[i[2]].qty,
       unit_cost |-> IF weighted_qty # 0 THEN quantize(total_cost, weighted_qty) ELSE 0,
       total_cost |-> quantize(total_cost, QtyScale),
       method |-> method]

\* The loop of lines 65-102 from the item at position k on.
RECURSIVE RunLines(_, _, _, _)
RunLines(db, method, items, k) ==
  IF k > Len(items) THEN [ok |-> TRUE, batches |-> db.batches, cogs |-> db.cogs]
  ELSE LET i == items[k]
           line == SaleItems(i[1])[i[2]]
           r == allocate_fifo(RowsFetched(db.batches, method, line.product,
                                          SaleOutlet(i[1])), line.qty)
       IN  IF db.cogs[i] # << >> THEN RunLines(db, method, items, k + 1)
           ELSE IF r.raised THEN [ok |-> FALSE, batches |-> db.batches, cogs |-> db.cogs]
           ELSE RunLines([batches |-> Saved(db.batches, r.allocations, 1),
                          cogs |-> [db.cogs EXCEPT ![i] = << Entry(i, method, r.allocations) >>]],
                         method, items, k + 1)

\* The tables and the outcome of one call; a call that met a fault is rolled
\* back wherever it is run.
RunCall(db, c) ==
  LET r == RunLines(db, c.method, ItemsRead(c.sale), 1)
  IN  IF c.outcome = "fault" THEN db @@ [outcome |-> "fault"]
      ELSE IF r.ok THEN [batches |-> r.batches, cogs |-> r.cogs, outcome |-> "ok"]
      ELSE db @@ [outcome |-> "insufficient"]

\* The calls of the run one after the other in the given order, from
\* position k on: the tables at the end, and the outcome of each call.
RECURSIVE Serial(_, _, _, _)
Serial(db, outcomes, order, k) ==
  IF k > Len(calls) THEN [batches |-> db.batches, cogs |-> db.cogs, outcomes |-> outcomes]
  ELSE LET r == RunCall([batches |-> db.batches, cogs |-> db.cogs], calls[order[k]])
       IN  Serial(r, [outcomes EXCEPT ![order[k]] = r.outcome], order, k + 1)

\* The tables before the first call.
Received ==
  [batches |-> [b \in BatchIds |-> [batches[b] EXCEPT !.qty_remaining = batches[b].qty_in]],
   cogs |-> [i \in ItemIds |-> << >>]]

Quiescent == \A c \in 1..Len(calls) : Finished(c)

SerialOrders ==
  { order \in Permutations(1..Len(calls)) :
      LET r == Serial(Received, [c \in 1..Len(calls) |-> "running"], order, 1)
      IN  /\ r.batches = batches
          /\ r.cogs = cogs
          /\ \A c \in 1..Len(calls) : r.outcomes[c] = calls[c].outcome }

(* C12: when all the invocations of a run have ended, the batch quantities,
   the CogsEntry rows and the outcome of every invocation are those of the
   same invocations run one after the other in some order. *)
C12_Serializable == Quiescent => SerialOrders # {}

(* C13: every sale created by SaleSerializer.create is costed: each of its
   lines eventually has exactly one CogsEntry, unless the costing of the sale
   fails with the insufficient-inventory error. *)
C13_CreatedSaleIsCosted ==
  \A s \in SaleIds :
    (s \in sales) ~>
      (\/ \A i \in write_items(s) : Len(cogs[i]) = 1
       \/ \E c \in 1..Len(calls) :
            calls[c].sale = s /\ calls[c].outcome = "insufficient")

\* The quantity of the lines of connection p's call, among those that have
\* no committed CogsEntry, of a (product, outlet) pair.
NewlyCosted(p, product, outlet) ==
  LET Qty(i) == IF /\ cogs[i] = << >>
                   /\ SaleItems(i[1])[i[2]].product = product
                   /\ SaleOutlet(i[1]) = outlet
                THEN SaleItems(i[1])[i[2]].qty ELSE 0
  IN  SeqSum(call[p].items, Qty, 1)

(* C14: in a call on a sale of which some lines have their CogsEntry and
   others do not, each costed line is passed over without error, without
   lock, without decrement and with its entry as it was, and the successful
   call leaves every other line with its one entry and the batches
   decremented by the quantities of those other lines. *)
C14_CostedLinesSkipped ==
  [][\A p \in Procs :
       /\ (/\ pc[p] = "check"
           /\ cogs[Item(p)] # << >>
           /\ (pc'[p] # pc[p] \/ call'[p] # call[p])
           /\ calls'[call[p].id].outcome # "fault")
          => /\ call'[p] = [call[p] EXCEPT !.idx = @ + 1]
             /\ txn'[p] = txn[p]
             /\ locks' = locks
             /\ batches' = batches
             /\ cogs' = cogs
       /\ (/\ pc[p] = "commit"
           /\ calls'[call[p].id].outcome = "ok")
          => /\ \A k \in 1..Len(call[p].items) :
                  LET i == call[p].items[k]
                  IN  IF cogs[i] # << >>
                      THEN /\ cogs'[i] = cogs[i]
                           /\ allocated'[i] = allocated[i]
                           /\ \A d \in 1..Len(txn[p].dec) : txn[p].dec[d].item # i
                      ELSE /\ Len(cogs'[i]) = 1
                           /\ cogs'[i][1].qty = SaleItems(i[1])[i[2]].qty
                           /\ cogs'[i][1].method = call[p].method
                           /\ SeqSum(allocated'[i], AllocQty, 1) = SaleItems(i[1])[i[2]].qty
             /\ \A product \in Products, outlet \in Outlets :
                  Consumed(product, outlet)' =
                    Consumed(product, outlet) + NewlyCosted(p, product, outlet)
    ]_vars

C14_Witness ==
  /\ Len(calls) = 2
  /\ \A c \in 1..2 : calls[c].sale = 1 /\ calls[c].outcome = "ok"
  /\ Len(cogs[<<1, 1>>]) = 1 /\ cogs[<<1, 1>>][1].method = FIFO
  /\ Len(cogs[<<1, 2>>]) = 1 /\ cogs[<<1, 2>>][1].method = FEFO
  /\ Consumed(1, 1) = Whole(7) /\ Consumed(2, 1) = Whole(1)

\* The movements of a product at an outlet, and what they add up to.
MovementsOf(product, outlet) ==
  { m \in ledger.rows :
      m.item_type = "product" /\ m.item_id = product /\ m.outlet = outlet }
OnHand(product, outlet) ==
  SumOver(MovementsOf(product, outlet),
          [m \in MovementsOf(product, outlet) |-> m.qty_in - m.qty_out])

(* C15: the stock on hand that current_stock and inventory_overview report for
   a (product, outlet) pair is the sum of qty_in - qty_out over exactly the
   StockLedger movements of that product at that outlet (inventory_overview
   lists the pair only when that sum is not 0). *)
C15_StockIsDerived ==
  \A product \in Products, outlet \in Outlets :
    /\ current_stock(product, outlet) = OnHand(product, outlet)
    /\ \A row \in inventory_overview[outlet] :
         row.product_id = product => row.qty_on_hand = OnHand(product, outlet)
    /\ (\E row \in inventory_overview[outlet] : row.product_id = product)
         <=> OnHand(product, outlet) # 0

C15_Witness ==
  /\ 1 \in sales
  /\ \E m \in ledger.rows : m.item_type = "ingredient" /\ m.item_id = 1 /\ m.outlet = 1
  /\ \E m \in ledger.rows : m.item_type = "product" /\ m.item_id = 1 /\ m.outlet = 2
  /\ \E m \in MovementsOf(1, 1) : m.qty_in > 0
  /\ OnHand(1, 1) = Whole(5) - Whole(7)
  /\ current_stock(1, 1) = Whole(5) - Whole(7)

(* C16: StockLedger movements are append-only: every step of the application
   leaves each existing movement in the ledger, as it was. *)
C16_LedgerAppendOnly == [][ledger.rows \subseteq ledger'.rows]_vars

\* A connection commits a call that has a line of the (product, outlet) pair.
Costing(product, outlet) ==
  \E p \in Procs :
    /\ pc[p] = "commit"
    /\ \E k \in 1..Len(call[p].items) :
         LET i == call[p].items[k]
         IN  SaleItems(i[1])[i[2]].product = product /\ SaleOutlet(i[1]) = outlet

(* C17: a step of compute_cogs_for_sale changes nothing but the
   qty_remaining of batches of the costed (product, outlet) pairs, which it
   only decreases, and the CogsEntry rows, to which it only adds: the Sale,
   SaleItem and StockLedger rows and every other field of every batch stay as
   they are, and no batch is created or deleted. *)
C17_Frame ==
  [][/\ sales' = sales
     /\ lines' = lines
     /\ ledger' = ledger
     /\ DOMAIN batches' = DOMAIN batches
     /\ \A b \in DOMAIN batches :
          /\ batches'[b] =
               [batches[b] EXCEPT !.qty_remaining = batches'[b].qty_remaining]
          /\ batches'[b].qty_remaining <= batches[b].qty_remaining
          /\ batches'[b].qty_remaining < batches[b].qty_remaining
               => Costing(batches[b].product, batches[b].outlet)
     /\ \A i \in ItemIds :
          /\ Len(cogs'[i]) >= Len(cogs[i])
          /\ SubSeq(cogs'[i], 1, Len(cogs[i])) = cogs[i]
    ]_vars

C17_Witness ==
  /\ Len(calls) = 1 /\ calls[1].sale = 3 /\ calls[1].outcome = "ok"
  /\ batches[3].qty_remaining = batches[3].qty_in - 1
  /\ batches[3].unit_cost = 2569
  /\ cogs[<<3, 1>>] # << >> /\ cogs[<<3, 2>>] # << >>
  /\ sales = SaleIds
  /\ Cardinality(ledger.rows) = 4

ProbeAllocated == SeqSum(probe.allocations, AllocQty, 1)

(* C18: the allocation is greedy in the order of the rows: every allocated
   batch but the last is taken in full, and a batch is allocated from only if
   every batch before it that has something left is taken in full. *)
C18_Greedy ==
  probe.at = "returned" =>
    LET al == probe.allocations
    IN  /\ \A a \in 1..(Len(al) - 1) : al[a].qty = al[a].batch.qty_remaining
        /\ \A a \in 1..Len(al) : \A k \in 1..(al[a].batch.id - 1) :
             probe.batches[k].qty_remaining > 0 =>
               \E e \in 1..(a - 1) :
                 /\ al[e].batch.id = k
                 /\ al[e].qty = probe.batches[k].qty_remaining

C18_Witness ==
  /\ probe.at = "returned"
  /\ Len(probe.allocations) = 2
  /\ probe.batches[2].qty_remaining = 0
  /\ probe.allocations[2].batch.id = 3
  /\ probe.allocations[2].qty < probe.allocations[2].batch.qty_remaining

(* C19: a successful allocation is an exact cover: the allocated quantities
   add up to the quantity needed, short by at most 1e-6; each is positive and
   at most what its batch has left; no batch is allocated from twice, and none
   that has zero or less left. *)
C19_ExactCover ==
  probe.at = "returned" =>
    LET al == probe.allocations
    IN  /\ ProbeAllocated <= probe.qty_needed
        /\ WithinEpsilon(probe.qty_needed - ProbeAllocated)
        /\ \A a \in 1..Len(al) :
             /\ al[a].batch = probe.batches[al[a].batch.id]
             /\ al[a].qty > 0
             /\ al[a].qty <= al[a].batch.qty_remaining
             /\ al[a].batch.qty_remaining > 0
        /\ \A a, e \in 1..Len(al) : a # e => al[a].batch.id # al[e].batch.id

C19_Witness ==
  /\ probe.at = "returned"
  /\ Len(probe.allocations) = 2
  /\ \E k \in DOMAIN probe.batches : probe.batches[k].qty_remaining < 0
  /\ ProbeAllocated = probe.qty_needed
  /\ probe.qty_needed = ProbeTotal

\* c cents are the value n / d rounded to the cent: within half a cent of it.
RoundedTo(c, n, d) ==
  LET diff == IF c * d >= n THEN c * d - n ELSE n - c * d
  IN  2 * diff <= d

(* C20: the total_cost of every CogsEntry is the rounded sum over its
   consumed batches of quantity used x unit_cost, and its unit_cost the
   rounded quotient of that sum by the quantity consumed; an entry for which
   nothing was consumed has unit cost 0 and total cost 0. *)
C20_WeightedCost ==
  \A i \in ItemIds : \A k \in 1..Len(cogs[i]) :
    LET cost == SeqSum(allocated[i], AllocCost, 1)
        consumed == SeqSum(allocated[i], AllocQty, 1)
    IN  /\ RoundedTo(cogs[i][k].total_cost, cost, QtyScale)
        /\ consumed # 0 => RoundedTo(cogs[i][k].unit_cost, cost, consumed)
        /\ consumed = 0 => cogs[i][k].unit_cost = 0 /\ cogs[i][k].total_cost = 0

C20_Witness ==
  /\ Len(cogs[<<2, 2>>]) = 1
  /\ allocated[<<2, 2>>] = << >>
  /\ cogs[<<2, 2>>][1].unit_cost = 0 /\ cogs[<<2, 2>>][1].total_cost = 0
  /\ Len(cogs[<<2, 1>>]) = 1
  /\ cogs[<<2, 1>>][1].total_cost = 5000 /\ cogs[<<2, 1>>][1].unit_cost = 1250

(* C21: the rows an invocation locks for a line are exactly the batches of
   the line's (product, outlet) that have a positive qty_remaining: it locks
   no batch of that pair that has nothing left, and no batch of another pair. *)
C21_LocksStockedBatchesOnly ==
  \A p \in Procs :
    pc[p] \in {"lock", "alloc", "dec", "create"} =>
      /\ \A k \in 1..Len(work[p].rows) :
           LET row == work[p].rows[k]
           IN  /\ locks[row.id] = p
               /\ batches[row.id].product = Line(p).product
               /\ batches[row.id].outlet = SaleOutlet(call[p].sale)
               /\ row.qty_remaining > 0
      /\ pc[p] # "lock" =>
           \A b \in BatchIds :
             (/\ batches[b].product = Line(p).product
              /\ batches[b].outlet = SaleOutlet(call[p].sale)
              /\ ReadRemaining(p, b) > 0)
             => locks[b] = p

\* The (product, outlet) pairs the lines of a sale can touch, and the calls
\* p and q running on sales that share none of them.
PairsOf(s) == { <<SaleItems(s)[k].product, SaleOutlet(s)>> : k \in 1..Len(SaleItems(s)) }
DisjointCalls(p, q) ==
  /\ p # q /\ pc[p] # "idle" /\ pc[q] # "idle"
  /\ PairsOf(call[p].sale) \cap PairsOf(call[q].sale) = {}

(* C22: invocations whose sales touch disjoint sets of (product, outlet)
   pairs never block one another: whatever locks the other holds, each can
   take its next step, and no step of the other changes a batch row or a
   CogsEntry that it reads, so that its outcome does not depend on the other. *)
C22_DisjointNeverBlock ==
  /\ [](\A p, q \in Procs :
          DisjointCalls(p, q) => q \notin Blockers(p) /\ ENABLED Running(p))
  /\ [][\A p, q \in Procs :
          (/\ DisjointCalls(p, q)
           /\ pc'[p] = pc[p] /\ call'[p] = call[p] /\ work'[p] = work[p]
           /\ txn'[p] = txn[p])
          => /\ \A b \in BatchIds :
                  <<batches[b].product, batches[b].outlet>> \in PairsOf(call[p].sale)
                  => /\ batches'[b] = batches[b]
                     /\ locks'[b] = p <=> locks[b] = p
                     /\ locks[b] = NoProc => locks'[b] = NoProc
             /\ \A i \in ItemIds : i[1] = call[p].sale => cogs'[i] = cogs[i]]_vars

\* Two calls on sales of disjoint pairs, one waiting to lock a row while the
\* other holds the lock of a row of its own.
C22_Witness ==
  \E p, q \in Procs :
    /\ DisjointCalls(p, q)
    /\ pc[p] = "lock"
    /\ \E b \in BatchIds : locks[b] = q

\* A run of two invocations on the same sale, both ended and neither cut
\* short by a fault, on a sale the stock received can serve.
SameSaleRun ==
  /\ Len(calls) = 2 /\ Quiescent
  /\ calls[1].sale = calls[2].sale
  /\ \A c \in 1..2 : calls[c].outcome # "fault"
  /\ RunCall(Received, [calls[1] EXCEPT !.outcome = "running"]).outcome = "ok"

(* C23: two invocations on the same sale, however interleaved, end in a
   committed state with exactly one CogsEntry for each line of the sale and
   with every batch decremented by the allocation of one of the two
   invocations only, never by both. *)
C23_OneCostingOfSameSale ==
  SameSaleRun =>
    /\ \A i \in ItemsOf(calls[1].sale) : Len(cogs[i]) = 1
    /\ \E c \in 1..2 :
         LET alone == RunCall(Received, calls[c])
         IN  /\ calls[c].outcome = "ok"
             /\ batches = alone.batches
             /\ cogs = alone.cogs

\* Such a run in which the two invocations overlapped: the second one got
\* past the existence check and failed afterwards.
C23_Witness ==
  /\ SameSaleRun
  /\ \E c \in 1..2 : calls[c].outcome \in {"integrity", "insufficient", "deadlock"}
  /\ \E b \in BatchIds : batches[b].qty_remaining < batches[b].qty_in

(* C24: of two invocations on the same sale, the one that loses the race
   ends as a silent no-op: it returns without raising, neither the
   IntegrityError of the CogsEntry unique index nor the insufficient-inventory
   error over what the winner's decrements left.  Stated for two invocations
   of the same method, which lock the rows in the same order. *)
C24_LoserReturnsSilently ==
  SameSaleRun /\ calls[1].method = calls[2].method
    => \A c \in 1..2 : calls[c].outcome = "ok"

(* C25: concurrent invocations are deadlock-free: no invocation is ever in
   a circular wait on batch locks, whether two sales list the same products
   in opposite line order or one invocation uses FIFO and the other FEFO on
   the same (product, outlet). *)
C25_NoCircularWait ==
  \A p \in Procs : p \notin WaitsFor(Blockers(p), Cardinality(Procs))

\* The same, for invocations that all use one method.
C25_NoCircularWaitOneMethod ==
  (\A p, q \in Procs : pc[p] # "idle" /\ pc[q] # "idle" => call[p].method = call[q].method)
    => C25_NoCircularWait

(* C26: whatever method the caller passed (nothing, or a string other than
   FIFO and FEFO), every CogsEntry stores FIFO or FEFO, and the stored method
   names the order in which the rows of the line were fetched: the FEFO order
   if and only if it is FEFO, the FIFO order when no method was passed. *)
C26_StoredMethodIsTheOrdering ==
  /\ \A i \in ItemIds : \A k \in 1..Len(cogs[i]) : cogs[i][k].method \in {FIFO, FEFO}
  /\ \A p \in Procs :
       pc[p] \in {"alloc", "dec", "create"} =>
         LET fetched == [k \in 1..Len(work[p].rows) |-> work[p].rows[k].id]
             stored == NewEntry(p).method
         IN  /\ stored \in {FIFO, FEFO}
             /\ stored = FEFO =>
                  fetched = pick_batches_fefo(Line(p).product, SaleOutlet(call[p].sale), batches)
             /\ stored = FIFO =>
                  fetched = pick_batches_fifo(Line(p).product, SaleOutlet(call[p].sale), batches)

\* What the transaction of p has taken so far from batch b, and the quantity
\* of the entries it has created so far for a (product, outlet) pair.
TakenByTxn(p, b) ==
  LET From(d) == IF d.batch = b THEN d.qty ELSE 0
  IN  SeqSum(txn[p].dec, From, 1)
CostedByTxn(p, product, outlet) ==
  LET Of(e) == IF e.product = product /\ e.outlet = outlet THEN e.qty ELSE 0
  IN  SeqSum(txn[p].entries, Of, 1)

(* C27: in a sale with several lines of the same product, the allocation of
   a later line sees the decrements made for the earlier lines of the call:
   the rows it fetches hold what the committed batch holds less what the call
   took already, no unit is taken twice (what the call has taken from the
   batches of a pair is the quantity of the lines it has costed, and never
   more than the batches held), so that a call never reaches its commit with
   lines whose sum exceeds the stock. *)
C27_LaterLinesSeeEarlierDecrements ==
  \A p \in Procs :
    pc[p] # "idle" =>
      /\ pc[p] = "alloc" =>
           \A k \in 1..Len(work[p].rows) :
             LET row == work[p].rows[k]
             IN  row.qty_remaining = batches[row.id].qty_remaining - TakenByTxn(p, row.id)
      /\ \A b \in BatchIds : TakenByTxn(p, b) <= batches[b].qty_remaining
      /\ pc[p] \in {"check", "commit"} =>
           \A product \in Products, outlet \in Outlets :
             /\ SumOver(Candidates(product, outlet, batches),
                        [b \in BatchIds |-> TakenByTxn(p, b)])
                  = CostedByTxn(p, product, outlet)
             /\ CostedByTxn(p, product, outlet)
                  <= SumOver(Candidates(product, outlet, batches),
                             [b \in BatchIds |-> batches[b].qty_remaining])

\* The sale of the second outlet with its three lines of product 1: the call
\* is at the third line, each line alone fits the 5 units received, and the
\* row fetched holds the 1 unit the first two lines left.
C27_Witness ==
  \E p \in Procs :
    /\ pc[p] = "alloc" /\ call[p].sale = BranchSale /\ call[p].idx = 3
    /\ Len(txn[p].entries) = 2
    /\ batches[4].qty_remaining = Whole(5)
    /\ work[p].rows[1].qty_remaining = Whole(1)
    /\ Line(p).qty > Whole(1) /\ Line(p).qty <= Whole(5)
    /\ allocate_fifo(work[p].rows, Line(p).qty).raised

\* The movements that refer to the SaleItem i.
MovementsFor(i) == { m \in ledger.rows : m.ref_id = i }

(* C28: SaleSerializer.create is all-or-nothing and appends exactly one
   StockLedger movement for each line of the request, with qty_in = 0,
   qty_out the quantity of the line, reason 'sale' and a reference to the
   line: a sale that exists has all its lines and their movements, and a
   request that failed at one of its lines (its product does not exist) has
   left no Sale, no SaleItem and no movement. *)
C28_CreateAllOrNothing ==
  /\ \A s \in sales : \A i \in write_items(s) :
       /\ i \in lines
       /\ \E m \in ledger.rows :
            /\ MovementsFor(i) = {m}
            /\ m.qty_in = 0 /\ m.qty_out = SaleItems(s)[i[2]].qty
            /\ m.reason = "sale"
            /\ m.item_type = PRODUCT /\ m.item_id = SaleItems(s)[i[2]].product
            /\ m.outlet = SaleOutlet(s)
  /\ \A i \in lines : i[1] \in sales
  /\ \A m \in ledger.rows : m.ref_id[1] \in sales /\ m.ref_id \in write_items(m.ref_id[1])
  /\ Cardinality(ledger.rows) <= ledger.last_id

\* Sale 3 created with its two lines after a request for it failed at its
\* second line, its first movement written and rolled back.
C28_Witness ==
  /\ 3 \in sales
  /\ Cardinality(MovementsFor(<<3, 1>>)) = 1 /\ Cardinality(MovementsFor(<<3, 2>>)) = 1
  /\ ledger.last_id > Cardinality(ledger.rows)

\* The unit costs of the batches the committed allocations of item i took from.
CostsConsumed(i) ==
  { batches[allocated[i][k].batch].unit_cost :
      k \in { j \in 1..Len(allocated[i]) : allocated[i][j].qty > 0 } }

(* C29: the unit_cost of a CogsEntry whose line consumed a positive quantity
   lies between the smallest and the largest unit_cost of the batches
   consumed for the line, and is that batch's unit_cost when one batch was
   consumed. *)
C29_UnitCostWithinBatchCosts ==
  \A i \in ItemIds :
    (Len(cogs[i]) = 1 /\ CostsConsumed(i) # {}) =>
      /\ \E lo \in CostsConsumed(i) : lo <= cogs[i][1].unit_cost
      /\ \E hi \in CostsConsumed(i) : cogs[i][1].unit_cost <= hi
      /\ Cardinality({ allocated[i][k].batch : k \in 1..Len(allocated[i]) }) = 1
           => CostsConsumed(i) = {cogs[i][1].unit_cost}

\* A line costed from two batches of different cost at a unit_cost strictly
\* between the two, and a line costed from one batch.
C29_Witness ==
  /\ \E i \in ItemIds :
       /\ Len(cogs[i]) = 1 /\ Cardinality(CostsConsumed(i)) = 2
       /\ \A c \in CostsConsumed(i) : c # cogs[i][1].unit_cost
  /\ \E i \in ItemIds :
       Len(cogs[i]) = 1 /\ Cardinality(CostsConsumed(i)) = 1

(* C30: every ImportJob created by ImportStartView.post goes from queued to
   running to done or error, and when its request ends it is in a terminal
   status, done or error, with finished_at set, whatever fails while the rows
   are loaded or imported: no job is left queued or running. *)
C30_JobEndsTerminal ==
  \A j \in 1..MaxJobs :
    (j <= Len(jobs)) ~>
      (/\ j <= Len(jobs)
       /\ imports[j].at = "ended"
       /\ jobs[j].status \in {STATUS_DONE, STATUS_ERROR}
       /\ jobs[j].finished_at # NULL)

=============================================================================
